---- MODULE Spec2Model ----
(***************************************************************************)
(* Model of the 8051/8052 disassembler plugin (src/8051-plugin.c):         *)
(* the symbol tables, decode_sfr, decode_bit, decode_a_mode and            *)
(* disassemble.  Strings are TLA+ strings built the way the printf         *)
(* formats build them; integers keep the width of their C types.           *)
(***************************************************************************)
EXTENDS Integers, Sequences, FiniteSets, TLC

(***************************************************************************)
(* Program constant and the bounds of the input samples.                   *)
(***************************************************************************)
\* #define STR_BUFFER 20
STR_BUFFER == 20

\* Operand bytes buf[1], buf[2] are drawn from fixed values and a window
\* around the sign / SFR edge 0x7f|0x80; ByteWindow widens the window.
ByteWindow == 0

\* Program counters are drawn from fixed values and a window around the
\* 2K page edge 0x07ff|0x0800; PCWindow widens the window.
PCWindow == 0

(***************************************************************************)
(* C arithmetic.                                                           *)
(***************************************************************************)
\* x & y on non-negative ints
RECURSIVE BitAnd(_, _)
BitAnd(x, y) ==
    IF x = 0 \/ y = 0 THEN 0
    ELSE (x % 2) * (y % 2) + 2 * BitAnd(x \div 2, y \div 2)

\* x | y on non-negative ints
RECURSIVE BitOr(_, _)
BitOr(x, y) ==
    IF x = 0 THEN y
    ELSE IF y = 0 THEN x
    ELSE (IF x % 2 = 1 \/ y % 2 = 1 THEN 1 ELSE 0)
         + 2 * BitOr(x \div 2, y \div 2)

\* x << n (int, no overflow for the operands used)
Shl(x, n) == x * 2^n

\* conversion to uint16_t (pc, dest)
U16(x) == x % 65536

\* (int8_t)b for a byte b: an unsigned byte has no sign
Int8_unsigned(b) == b

\* (int8_t)b for a byte b
Int8(b) == IF b >= 128 THEN b - 256 ELSE b

(***************************************************************************)
(* printf conversions and the bounded string writes.                       *)
(***************************************************************************)
HexDigits ==
    <<"0", "1", "2", "3", "4", "5", "6", "7",
      "8", "9", "a", "b", "c", "d", "e", "f">>

\* "%x": lower-case hexadecimal, no leading zeros
RECURSIVE Hex(_)
Hex(n) ==
    IF n < 16 THEN HexDigits[n + 1]
    ELSE Hex(n \div 16) \o HexDigits[(n % 16) + 1]

\* "%i" of a non-negative int
RECURSIVE Dec(_)
Dec(n) ==
    IF n < 10 THEN HexDigits[n + 1]
    ELSE Dec(n \div 10) \o HexDigits[(n % 10) + 1]

\* "0x%x"
Fmt0x(n) == "0x" \o Hex(n)

\* snprintf(s, size, ...): at most size-1 characters are stored
Snprintf(size, text) ==
    IF Len(text) < size THEN text ELSE SubSeq(text, 1, size - 1)

\* strncpy(s, src, n): at most n characters are copied
Strncpy(src, n) ==
    IF Len(src) <= n THEN src ELSE SubSeq(src, 1, n)

(***************************************************************************)
(* Symbol tables (C index i is TLA+ index i+1).                            *)
(***************************************************************************)
regs == <<"@r0", "@r1", "r0", "r1", "r2", "r3", "r4", "r5", "r6", "r7">>

sfr_map == <<
    "P0", "SP", "DPL", "DPH", "", "", "", "PCON",
    "TCON", "TMOD", "TL0", "TL1", "TH0", "TH1", "", "",
    "P1", "", "", "", "", "", "", "",
    "SCON", "SBUF", "", "", "", "", "", "",
    "P2", "", "", "", "", "", "", "",
    "IE", "", "", "", "", "", "", "",
    "P3", "", "", "", "", "", "", "",
    "IP", "", "", "", "", "", "", "",
    "", "", "", "", "", "", "", "",
    "T2CON", "", "RCAP2L", "RCAP2H", "TL2", "TH2", "", "",
    "PSW", "", "", "", "", "", "", "",
    "", "", "", "", "", "", "", "",
    "ACC", "", "", "", "", "", "", "",
    "", "", "", "", "", "", "", "",
    "B", "", "", "", "", "", "", "",
    "", "", "", "", "", "", "", "">>

sfr_bit_map == <<
    "P0.0", "P0.1", "P0.2", "P0.3", "P0.4", "P0.5", "P0.6", "P0.7",
    "IT0", "IE0", "IT1", "IE1", "TR0", "TF0", "TR1", "TF1",
    "P1.0", "P1.1", "P1.2", "P1.3", "P1.4", "P1.5", "P1.6", "P1.7",
    "RI", "TI", "RB8", "TB8", "REN", "SM2", "SM1", "SM0",
    "P2.0", "P2.1", "P2.2", "P2.3", "P2.4", "P2.5", "P2.6", "P2.7",
    "EX0", "ET0", "EX1", "ET1", "ES", "ET2", "IE.6", "EA",
    "P3.0", "P3.1", "P3.2", "P3.3", "P3.4", "P3.5", "P3.6", "P3.7",
    "PX0", "PT0", "PX1", "PT1", "PS", "PT2", "IP.6", "IP.7",
    "", "", "", "", "", "", "", "",
    "CP/RL2", "CP/T2", "TR2", "EXEN2", "TLCK", "RCLK", "EXF2", "TF2",
    "P", "PSW.1", "OV", "RS0", "RS1", "F0", "AC", "CY",
    "", "", "", "", "", "", "", "",
    "ACC.0", "ACC.1", "ACC.2", "ACC.3", "ACC.4", "ACC.5", "ACC.6", "ACC.7",
    "", "", "", "", "", "", "", "",
    "B.0", "B.1", "B.2", "B.3", "B.4", "B.5", "B.6", "B.7",
    "", "", "", "", "", "", "", "">>

(***************************************************************************)
(* decode_sfr, decode_bit: the string written to s.                        *)
(***************************************************************************)
decode_sfr(address) ==
    IF address >= 128 /\ Len(sfr_map[address - 128 + 1]) > 0
    THEN Strncpy(sfr_map[address - 128 + 1], STR_BUFFER)
    ELSE Snprintf(STR_BUFFER, Fmt0x(address))

\* decode_bit without the 0x20 base of the bit-addressable RAM
decode_bit_nobase(address) ==
    IF address >= 128
    THEN IF Len(sfr_bit_map[address - 128 + 1]) > 0
         THEN Strncpy(sfr_bit_map[address - 128 + 1], STR_BUFFER)
         ELSE Snprintf(STR_BUFFER, Fmt0x(address))
    ELSE Snprintf(STR_BUFFER,
                  Fmt0x(address \div 8) \o "." \o Dec(address % 8))

decode_bit(address) ==
    IF address >= 128
    THEN IF Len(sfr_bit_map[address - 128 + 1]) > 0
         THEN Strncpy(sfr_bit_map[address - 128 + 1], STR_BUFFER)
         ELSE Snprintf(STR_BUFFER, Fmt0x(address))
    ELSE Snprintf(STR_BUFFER,
                  Fmt0x(address \div 8 + 32) \o "." \o Dec(address % 8))

(***************************************************************************)
(* decode_a_mode(low_nibble, buf, s): the return value, the content of s   *)
(* afterwards and the indices of buf it read.  buf is a TLA+ sequence:     *)
(* C buf[i] is buf[i+1].                                                   *)
(***************************************************************************)
\* decode_a_mode whose immediate mode reports one byte
decode_a_mode_imm1(low_nibble, buf, s) ==
    CASE low_nibble = 4 ->
           [ret |-> 1, s |-> Snprintf(STR_BUFFER, "#" \o Fmt0x(buf[2])),
            reads |-> {1}]
      [] low_nibble = 5 ->
           [ret |-> 2, s |-> decode_sfr(buf[2]), reads |-> {1}]
      [] low_nibble = 6 ->
           [ret |-> 1, s |-> Snprintf(STR_BUFFER, "@r0"), reads |-> {}]
      [] low_nibble = 7 ->
           [ret |-> 1, s |-> Snprintf(STR_BUFFER, "@r1"), reads |-> {}]
      [] low_nibble \in 8..15 ->
           [ret |-> 1, s |-> Snprintf(STR_BUFFER, "r" \o Dec(low_nibble - 8)),
            reads |-> {}]
      [] OTHER -> [ret |-> 0, s |-> s, reads |-> {}]

\* decode_a_mode with the case label 0xf missing
decode_a_mode_no_f(low_nibble, buf, s) ==
    CASE low_nibble = 4 ->
           [ret |-> 2, s |-> Snprintf(STR_BUFFER, "#" \o Fmt0x(buf[2])),
            reads |-> {1}]
      [] low_nibble = 5 ->
           [ret |-> 2, s |-> decode_sfr(buf[2]), reads |-> {1}]
      [] low_nibble = 6 ->
           [ret |-> 1, s |-> Snprintf(STR_BUFFER, "@r0"), reads |-> {}]
      [] low_nibble = 7 ->
           [ret |-> 1, s |-> Snprintf(STR_BUFFER, "@r1"), reads |-> {}]
      [] low_nibble \in 8..14 ->
           [ret |-> 1, s |-> Snprintf(STR_BUFFER, "r" \o Dec(low_nibble - 8)),
            reads |-> {}]
      [] OTHER -> [ret |-> 0, s |-> s, reads |-> {}]

\* decode_a_mode with the case label 0x5 missing
decode_a_mode_no_5(low_nibble, buf, s) ==
    CASE low_nibble = 4 ->
           [ret |-> 2, s |-> Snprintf(STR_BUFFER, "#" \o Fmt0x(buf[2])),
            reads |-> {1}]
      [] low_nibble = 6 ->
           [ret |-> 1, s |-> Snprintf(STR_BUFFER, "@r0"), reads |-> {}]
      [] low_nibble = 7 ->
           [ret |-> 1, s |-> Snprintf(STR_BUFFER, "@r1"), reads |-> {}]
      [] low_nibble \in 8..15 ->
           [ret |-> 1, s |-> Snprintf(STR_BUFFER, "r" \o Dec(low_nibble - 8)),
            reads |-> {}]
      [] OTHER -> [ret |-> 0, s |-> s, reads |-> {}]

\* decode_a_mode printing the nibble itself as the register number
decode_a_mode_rnib(low_nibble, buf, s) ==
    CASE low_nibble = 4 ->
           [ret |-> 2, s |-> Snprintf(STR_BUFFER, "#" \o Fmt0x(buf[2])),
            reads |-> {1}]
      [] low_nibble = 5 ->
           [ret |-> 2, s |-> decode_sfr(buf[2]), reads |-> {1}]
      [] low_nibble = 6 ->
           [ret |-> 1, s |-> Snprintf(STR_BUFFER, "@r0"), reads |-> {}]
      [] low_nibble = 7 ->
           [ret |-> 1, s |-> Snprintf(STR_BUFFER, "@r1"), reads |-> {}]
      [] low_nibble \in 8..15 ->
           [ret |-> 1, s |-> Snprintf(STR_BUFFER, "r" \o Dec(low_nibble)),
            reads |-> {}]
      [] OTHER -> [ret |-> 0, s |-> s, reads |-> {}]

\* decode_a_mode with the case label 0x6 missing
decode_a_mode_no_6(low_nibble, buf, s) ==
    CASE low_nibble = 4 ->
           [ret |-> 2, s |-> Snprintf(STR_BUFFER, "#" \o Fmt0x(buf[2])),
            reads |-> {1}]
      [] low_nibble = 5 ->
           [ret |-> 2, s |-> decode_sfr(buf[2]), reads |-> {1}]
      [] low_nibble = 7 ->
           [ret |-> 1, s |-> Snprintf(STR_BUFFER, "@r1"), reads |-> {}]
      [] low_nibble \in 8..15 ->
           [ret |-> 1, s |-> Snprintf(STR_BUFFER, "r" \o Dec(low_nibble - 8)),
            reads |-> {}]
      [] OTHER -> [ret |-> 0, s |-> s, reads |-> {}]

decode_a_mode(low_nibble, buf, s) ==
    CASE low_nibble = 4 ->
           [ret |-> 2, s |-> Snprintf(STR_BUFFER, "#" \o Fmt0x(buf[2])),
            reads |-> {1}]
      [] low_nibble = 5 ->
           [ret |-> 2, s |-> decode_sfr(buf[2]), reads |-> {1}]
      [] low_nibble = 6 ->
           [ret |-> 1, s |-> Snprintf(STR_BUFFER, "@r0"), reads |-> {}]
      [] low_nibble = 7 ->
           [ret |-> 1, s |-> Snprintf(STR_BUFFER, "@r1"), reads |-> {}]
      [] low_nibble \in 8..15 ->
           [ret |-> 1, s |-> Snprintf(STR_BUFFER, "r" \o Dec(low_nibble - 8)),
            reads |-> {}]
      [] OTHER -> [ret |-> 0, s |-> s, reads |-> {}]

(***************************************************************************)
(* disassemble.  A context c carries what one call holds while it runs:    *)
(*   pc      a->pc & 0xffff                                                *)
(*   buf     the instruction bytes (C buf[i] is buf[i+1])                  *)
(*   l       *buf & 0x0f                                                   *)
(*   a_mode  the local a_mode[] (uninitialised until decode_a_mode writes) *)
(*   op      op->buf_asm and op->size as the caller passed them            *)
(*   wild    what a read past the end of regs[] would yield                *)
(*   reads   indices of buf dereferenced so far                            *)
(*   blocks  the case labels of the switch entered so far                  *)
(* The result of a call is buf_asm, size (op->size), ret (the return       *)
(* value), and the bookkeeping reads, blocks, regs_idx (the indices used   *)
(* on regs[]).  snprintf into op->buf_asm is bounded by R_ASM_BUFSIZE of   *)
(* r_asm.h, which no output of this decoder (at most 24 characters)        *)
(* reaches.                                                                *)
(***************************************************************************)
B1(c) == c.buf[2]
B2(c) == c.buf[3]

\* a return after writing op->buf_asm and op->size
Done(c, text, size, reads, ridx) ==
    [buf_asm |-> text, size |-> size, ret |-> size,
     reads |-> c.reads \cup reads, blocks |-> c.blocks, regs_idx |-> ridx]

\* the final 'return 0': op is left as the caller passed it
Fail(c) ==
    [buf_asm |-> c.op.buf_asm, size |-> c.op.size, ret |-> 0,
     reads |-> c.reads, blocks |-> c.blocks, regs_idx |-> {}]

\* control reaches the statements under a case label
Enter(c, h) == [c EXCEPT !.blocks = Append(@, h)]

\* regs[i]
RegsAt(c, i) == IF i \in 0..9 THEN regs[i + 1] ELSE c.wild

\* pc += len; dest = pc + (int8_t)disp   (pc, dest are uint16_t)
RelTarget(pc, len, disp) == U16(U16(pc + len) + Int8(disp))

\* dest = buf[1]<<8 | buf[2], low byte first
Code16_le(b1, b2) == U16(BitOr(Shl(b2, 8), b1))

\* dest = buf[1]<<8 | buf[2]
Code16(b1, b2) == U16(BitOr(Shl(b1, 8), b2))

\* ajmp/acall target with the page taken from the low nibble of the opcode
Addr11_lownib(pc, b0, b1) ==
    U16(BitOr(BitOr(BitAnd(U16(pc + 2), 63488), Shl(BitAnd(b0, 15), 8)), b1))

\* ajmp/acall target without the advance of pc
Addr11_noadv(pc, b0, b1) ==
    U16(BitOr(BitOr(BitAnd(pc, 63488), Shl(BitAnd(b0, 224), 3)), b1))

\* pc += 2; dest = (pc&0xf800) | (*buf&0xe0)<<3 | buf[1]
Addr11(pc, b0, b1) ==
    U16(BitOr(BitOr(BitAnd(U16(pc + 2), 63488), Shl(BitAnd(b0, 224), 3)), b1))

\* case 0xf0: mov part 5
CaseF0(c0) ==
    LET c == Enter(c0, 240) IN
    IF c.l = 0 THEN Done(c, "movx @dptr, a", 1, {}, {})
    ELSE IF c.l = 2 THEN Done(c, "movx @r0, a", 1, {}, {})
    ELSE IF c.l = 3 THEN Done(c, "movx @r1, a", 1, {}, {})
    ELSE IF c.l = 4 THEN Done(c, "cpl a", 1, {}, {})
    ELSE LET am == decode_a_mode(c.l, c.buf, c.a_mode) IN
         IF am.ret > 0
         THEN Done(c, "mov " \o am.s \o ", a", am.ret, am.reads, {})
         ELSE Fail([c EXCEPT !.a_mode = am.s])

\* case 0xe0: mov part 4
CaseE0(c0) ==
    LET c == Enter(c0, 224) IN
    IF c.l = 0 THEN Done(c, "movx a, @dptr", 1, {}, {})
    ELSE IF c.l = 2 THEN Done(c, "movx a, @r0", 1, {}, {})
    ELSE IF c.l = 3 THEN Done(c, "movx a, @r1", 1, {}, {})
    ELSE IF c.l = 4 THEN Done(c, "clr a", 1, {}, {})
    ELSE LET am == decode_a_mode(c.l, c.buf, c.a_mode) IN
         IF am.ret > 0
         THEN Done(c, "mov a, " \o am.s, am.ret, am.reads, {})
         ELSE CaseF0([c EXCEPT !.a_mode = am.s])

\* case 0xd0: djnz
CaseD0(c0) ==
    LET c == Enter(c0, 208) IN
    IF c.l = 0 THEN Done(c, "pop " \o decode_sfr(B1(c)), 2, {1}, {})
    ELSE IF c.l = 2 THEN Done(c, "setb " \o decode_bit(B1(c)), 2, {1}, {})
    ELSE IF c.l = 3 THEN Done(c, "setb c", 1, {}, {})
    ELSE IF c.l = 4 THEN Done(c, "da a", 1, {}, {})
    ELSE IF c.l = 5
    THEN Done(c, "djnz " \o decode_sfr(B1(c)) \o ", "
                 \o Fmt0x(RelTarget(c.pc, 2, B2(c))), 3, {1, 2}, {})
    ELSE IF c.l = 6 THEN Done(c, "xchd a, @r0", 1, {}, {})
    ELSE IF c.l = 7 THEN Done(c, "xchd a, @r1", 1, {}, {})
    ELSE Done(c, "djnz " \o RegsAt(c, c.l - 6) \o ", "
                 \o Fmt0x(RelTarget(c.pc, 2, B1(c))), 2, {1}, {c.l - 6})

\* case 0xc0: xch
CaseC0(c0) ==
    LET c == Enter(c0, 192) IN
    IF c.l = 0 THEN Done(c, "push " \o decode_sfr(B1(c)), 2, {1}, {})
    ELSE IF c.l = 2 THEN Done(c, "clr " \o decode_bit(B1(c)), 2, {1}, {})
    ELSE IF c.l = 3 THEN Done(c, "clr c", 1, {}, {})
    ELSE IF c.l = 4 THEN Done(c, "swap a", 1, {}, {})
    ELSE LET am == decode_a_mode(c.l, c.buf, c.a_mode) IN
         IF am.ret > 0
         THEN Done(c, "xch a, " \o am.s, am.ret, am.reads, {})
         ELSE CaseD0([c EXCEPT !.a_mode = am.s])

\* case 0xb0: cjne
CaseB0(c0) ==
    LET c == Enter(c0, 176) IN
    IF c.l = 0 THEN Done(c, "anl c, /" \o decode_bit(B1(c)), 2, {1}, {})
    ELSE IF c.l = 2 THEN Done(c, "cpl " \o decode_bit(B1(c)), 2, {1}, {})
    ELSE IF c.l = 3 THEN Done(c, "cpl c", 1, {}, {})
    ELSE IF c.l = 4
    THEN Done(c, "cjne a, #" \o Fmt0x(B1(c)) \o ", "
                 \o Fmt0x(RelTarget(c.pc, 3, B2(c))), 3, {1, 2}, {})
    ELSE IF c.l = 5
    THEN Done(c, "cjne a, " \o decode_sfr(B1(c)) \o ", "
                 \o Fmt0x(RelTarget(c.pc, 3, B2(c))), 3, {1, 2}, {})
    ELSE Done(c, "cjne " \o RegsAt(c, c.l - 6) \o ", #" \o Fmt0x(B1(c))
                 \o ", " \o Fmt0x(RelTarget(c.pc, 3, B2(c))),
              3, {1, 2}, {c.l - 6})

\* case 0xa0: mov part 3
CaseA0(c0) ==
    LET c == Enter(c0, 160) IN
    IF c.l = 0 THEN Done(c, "orl c, /" \o decode_bit(B1(c)), 2, {1}, {})
    ELSE IF c.l = 2 THEN Done(c, "mov c, " \o decode_bit(B1(c)), 2, {1}, {})
    ELSE IF c.l = 3 THEN Done(c, "inc dptr", 1, {}, {})
    ELSE IF c.l = 4 THEN Done(c, "mul ab", 1, {}, {})
    ELSE IF c.l = 5 THEN Done(c, "reserved", 1, {}, {})
    ELSE Done(c, "mov " \o RegsAt(c, c.l - 6) \o ", " \o decode_sfr(B1(c)),
              2, {1}, {c.l - 6})

\* case 0x90: subb
Case90(c0) ==
    LET c == Enter(c0, 144) IN
    IF c.l = 0
    THEN Done(c, "mov dptr, #"
                 \o Fmt0x(BitAnd(BitOr(Shl(B1(c), 8), B2(c)), 65535)),
              3, {1, 2}, {})
    ELSE IF c.l = 2 THEN Done(c, "mov " \o decode_bit(B1(c)) \o ", c",
                              2, {1}, {})
    ELSE IF c.l = 3 THEN Done(c, "movc a, @a+dptr", 1, {}, {})
    ELSE LET am == decode_a_mode(c.l, c.buf, c.a_mode) IN
         IF am.ret > 0
         THEN Done(c, "subb a, " \o am.s, am.ret, am.reads, {})
         ELSE CaseA0([c EXCEPT !.a_mode = am.s])

\* case 0x80: mov part 2
Case80(c0) ==
    LET c == Enter(c0, 128) IN
    IF c.l = 0
    THEN Done(c, "sjmp " \o Fmt0x(RelTarget(c.pc, 2, B1(c))), 2, {1}, {})
    ELSE IF c.l = 2 THEN Done(c, "anl c, " \o decode_bit(B1(c)), 2, {1}, {})
    ELSE IF c.l = 3 THEN Done(c, "movc a, @a+pc", 1, {}, {})
    ELSE IF c.l = 4 THEN Done(c, "div ab", 1, {}, {})
    ELSE IF c.l = 5
    THEN Done(c, "mov " \o decode_sfr(B2(c)) \o ", " \o decode_sfr(B1(c)),
              3, {1, 2}, {})
    ELSE Done(c, "mov " \o decode_sfr(B1(c)) \o ", " \o RegsAt(c, c.l - 6),
              2, {1}, {c.l - 6})

\* case 0x70: mov part 1
Case70(c0) ==
    LET c == Enter(c0, 112) IN
    IF c.l = 0
    THEN Done(c, "jnz " \o Fmt0x(RelTarget(c.pc, 2, B1(c))), 2, {1}, {})
    ELSE IF c.l = 2 THEN Done(c, "orl c, " \o decode_bit(B1(c)), 2, {1}, {})
    ELSE IF c.l = 3 THEN Done(c, "jmp @a+dptr", 1, {}, {})
    ELSE IF c.l = 4 THEN Done(c, "mov a, #" \o Fmt0x(B1(c)), 2, {1}, {})
    ELSE IF c.l = 5
    THEN Done(c, "mov " \o decode_sfr(B1(c)) \o ", #" \o Fmt0x(B2(c)),
              3, {1, 2}, {})
    ELSE Done(c, "mov " \o RegsAt(c, c.l - 6) \o ", #" \o Fmt0x(B1(c)),
              2, {1}, {c.l - 6})

\* case 0x60: xrl
Case60(c0) ==
    LET c == Enter(c0, 96) IN
    IF c.l = 0
    THEN Done(c, "jz " \o Fmt0x(RelTarget(c.pc, 2, B1(c))), 2, {1}, {})
    ELSE IF c.l = 2
    THEN Done(c, "xrl " \o decode_sfr(B1(c)) \o ", a", 2, {1}, {})
    ELSE IF c.l = 3
    THEN Done(c, "xrl " \o decode_sfr(B1(c)) \o ", #" \o Fmt0x(B2(c)),
              3, {1, 2}, {})
    ELSE LET am == decode_a_mode(c.l, c.buf, c.a_mode) IN
         IF am.ret > 0
         THEN Done(c, "xrl a, " \o am.s, am.ret, am.reads, {})
         ELSE Case70([c EXCEPT !.a_mode = am.s])

\* case 0x50: anl
Case50(c0) ==
    LET c == Enter(c0, 80) IN
    IF c.l = 0
    THEN Done(c, "jnc " \o Fmt0x(RelTarget(c.pc, 2, B1(c))), 2, {1}, {})
    ELSE IF c.l = 2
    THEN Done(c, "anl " \o decode_sfr(B1(c)) \o ", a", 2, {1}, {})
    ELSE IF c.l = 3
    THEN Done(c, "anl " \o decode_sfr(B1(c)) \o ", #" \o Fmt0x(B2(c)),
              3, {1, 2}, {})
    ELSE LET am == decode_a_mode(c.l, c.buf, c.a_mode) IN
         IF am.ret > 0
         THEN Done(c, "anl a, " \o am.s, am.ret, am.reads, {})
         ELSE Case60([c EXCEPT !.a_mode = am.s])

\* case 0x40: orl
Case40(c0) ==
    LET c == Enter(c0, 64) IN
    IF c.l = 0
    THEN Done(c, "jc " \o Fmt0x(RelTarget(c.pc, 2, B1(c))), 2, {1}, {})
    ELSE IF c.l = 2
    THEN Done(c, "orl " \o decode_sfr(B1(c)) \o ", a", 2, {1}, {})
    ELSE IF c.l = 3
    THEN Done(c, "orl " \o decode_sfr(B1(c)) \o ", #" \o Fmt0x(B2(c)),
              3, {1, 2}, {})
    ELSE LET am == decode_a_mode(c.l, c.buf, c.a_mode) IN
         IF am.ret > 0
         THEN Done(c, "orl a, " \o am.s, am.ret, am.reads, {})
         ELSE Case50([c EXCEPT !.a_mode = am.s])

\* case 0x30: addc
Case30(c0) ==
    LET c == Enter(c0, 48) IN
    IF c.l = 0
    THEN Done(c, "jnb " \o decode_bit(B1(c)) \o ", "
                 \o Fmt0x(RelTarget(c.pc, 3, B2(c))), 3, {1, 2}, {})
    ELSE IF c.l = 2 THEN Done(c, "reti", 1, {}, {})
    ELSE IF c.l = 3 THEN Done(c, "rlc a", 1, {}, {})
    ELSE LET am == decode_a_mode(c.l, c.buf, c.a_mode) IN
         IF am.ret > 0
         THEN Done(c, "addc a, " \o am.s, am.ret, am.reads, {})
         ELSE Case40([c EXCEPT !.a_mode = am.s])

\* case 0x20: add
Case20(c0) ==
    LET c == Enter(c0, 32) IN
    IF c.l = 0
    THEN Done(c, "jb " \o decode_bit(B1(c)) \o ", "
                 \o Fmt0x(RelTarget(c.pc, 3, B2(c))), 3, {1, 2}, {})
    ELSE IF c.l = 2 THEN Done(c, "ret", 1, {}, {})
    ELSE IF c.l = 3 THEN Done(c, "rl a", 1, {}, {})
    ELSE LET am == decode_a_mode(c.l, c.buf, c.a_mode) IN
         IF am.ret > 0
         THEN Done(c, "add a, " \o am.s, am.ret, am.reads, {})
         ELSE Case30([c EXCEPT !.a_mode = am.s])

\* case 0x10: dec
Case10(c0) ==
    LET c == Enter(c0, 16) IN
    IF c.l = 0
    THEN Done(c, "jbc " \o decode_bit(B1(c)) \o ", "
                 \o Fmt0x(RelTarget(c.pc, 3, B2(c))), 3, {1, 2}, {})
    ELSE IF c.l = 2
    THEN Done(c, "lcall " \o Fmt0x(Code16(B1(c), B2(c))), 3, {1, 2}, {})
    ELSE IF c.l = 3 THEN Done(c, "rrc a", 1, {}, {})
    ELSE IF c.l = 4 THEN Done(c, "dec a", 1, {}, {})
    ELSE LET am == decode_a_mode(c.l, c.buf, c.a_mode) IN
         IF am.ret > 0
         THEN Done(c, "dec " \o am.s, am.ret, am.reads, {})
         ELSE Case20([c EXCEPT !.a_mode = am.s])

\* case 0x00: inc
Case00(c0) ==
    LET c == Enter(c0, 0) IN
    IF c.l = 0 THEN Done(c, "nop", 1, {}, {})
    ELSE IF c.l = 2
    THEN Done(c, "ljmp " \o Fmt0x(Code16(B1(c), B2(c))), 3, {1, 2}, {})
    ELSE IF c.l = 3 THEN Done(c, "rr a", 1, {}, {})
    ELSE IF c.l = 4 THEN Done(c, "inc a", 1, {}, {})
    ELSE LET am == decode_a_mode(c.l, c.buf, c.a_mode) IN
         IF am.ret > 0
         THEN Done(c, "inc " \o am.s, am.ret, am.reads, {})
         ELSE Case10([c EXCEPT !.a_mode = am.s])

\* disassemble(a, op, buf, len): a_pc is a->pc, op the caller's op fields,
\* a_mode the initial content of the local a_mode[], wild as in RegsAt
disassemble(a_pc, buf, op, a_mode, wild) ==
    LET pc == BitAnd(a_pc, 65535)
        h  == BitAnd(buf[1], 240)
        l  == BitAnd(buf[1], 15)
        c  == [pc |-> pc, buf |-> buf, l |-> l, a_mode |-> a_mode,
               op |-> op, wild |-> wild, reads |-> {0}, blocks |-> <<>>]
    IN
    IF BitAnd(buf[1], 31) = 1
    THEN Done(c, "ajmp " \o Fmt0x(Addr11(pc, buf[1], buf[2])), 2, {1}, {})
    ELSE IF BitAnd(buf[1], 31) = 17
    THEN Done(c, "acall " \o Fmt0x(Addr11(pc, buf[1], buf[2])), 2, {1}, {})
    ELSE CASE h = 0   -> Case00(c)
           [] h = 16  -> Case10(c)
           [] h = 32  -> Case20(c)
           [] h = 48  -> Case30(c)
           [] h = 64  -> Case40(c)
           [] h = 80  -> Case50(c)
           [] h = 96  -> Case60(c)
           [] h = 112 -> Case70(c)
           [] h = 128 -> Case80(c)
           [] h = 144 -> Case90(c)
           [] h = 160 -> CaseA0(c)
           [] h = 176 -> CaseB0(c)
           [] h = 192 -> CaseC0(c)
           [] h = 208 -> CaseD0(c)
           [] h = 224 -> CaseE0(c)
           [] h = 240 -> CaseF0(c)
           [] OTHER   -> Fail(c)

(***************************************************************************)
(* Inputs.                                                                 *)
(***************************************************************************)
\* every value of a byte
Byte == 0..255

\* operand bytes: 0x00 and 0xff, the operands 0x05 and 0x23 of the
\* documented examples, and the window around 0x7f|0x80 (the sign of a
\* displacement, the start of the SFR range)
ByteSamples ==
    {0, 5, 35, 255} \cup ((127 - ByteWindow)..(128 + ByteWindow))

\* a->pc: 0x0000, 0x1000, the 16-bit wrap (0xffff, and 0x10000 which the
\* mask folds to 0), and the window around the 2K page edge
PCSamples ==
    {0, 4096, 65535, 65536} \cup ((2047 - PCWindow)..(2048 + PCWindow))

\* what an indeterminate read (an uninitialised local buffer, an element
\* past the end of regs[]) may yield
Garbage == {"", "?"}

\* op->buf_asm and op->size before the call
OpBefore == [buf_asm |-> "", size |-> 0]

(***************************************************************************)
(* State.                                                                  *)
(*   a_pc, buf      the arguments of disassemble                           *)
(*   op, ret        op->buf_asm/op->size and the return value              *)
(*   note           bookkeeping of the last call: reads, blocks, regs_idx  *)
(*   address        the argument of decode_sfr / decode_bit                *)
(*   low_nibble     the argument of decode_a_mode                          *)
(*   s, sret        the callee's output buffer and decode_a_mode's return  *)
(*   fn             the function that has run ("none" before any call)     *)
(***************************************************************************)
VARIABLES a_pc, buf, op, ret, note, address, low_nibble, s, sret, fn

vars == <<a_pc, buf, op, ret, note, address, low_nibble, s, sret, fn>>

NoNote == [reads |-> {}, blocks |-> <<>>, regs_idx |-> {}]

\* one instruction at a->pc, not yet decoded
Init ==
    /\ a_pc \in PCSamples
    /\ buf \in {<<b0, b1, b2>> : b0 \in Byte, b1 \in ByteSamples,
                                 b2 \in ByteSamples}
    /\ op = OpBefore
    /\ ret = -1
    /\ note = NoNote
    /\ address = 0
    /\ low_nibble = 0
    /\ s = ""
    /\ sret = -1
    /\ fn = "none"

\* the host calls disassemble once on the instruction
Disassemble ==
    /\ fn = "none"
    /\ \E junk \in Garbage :
         LET r == disassemble(a_pc, buf, op, junk, junk) IN
         /\ op' = [buf_asm |-> r.buf_asm, size |-> r.size]
         /\ ret' = r.ret
         /\ note' = [reads |-> r.reads, blocks |-> r.blocks,
                     regs_idx |-> r.regs_idx]
    /\ fn' = "disassemble"
    /\ UNCHANGED <<a_pc, buf, address, low_nibble, s, sret>>

Next == Disassemble

Spec == Init /\ [][Next]_vars

\* one address, s not yet written
InitTables ==
    /\ address \in Byte
    /\ s \in Garbage
    /\ a_pc = 0
    /\ buf = <<0, 0, 0>>
    /\ op = OpBefore
    /\ ret = -1
    /\ note = NoNote
    /\ low_nibble = 0
    /\ sret = -1
    /\ fn = "none"

DecodeSfr ==
    /\ fn = "none"
    /\ s' = decode_sfr(address)
    /\ fn' = "decode_sfr"
    /\ UNCHANGED <<a_pc, buf, op, ret, note, address, low_nibble, sret>>

DecodeBit ==
    /\ fn = "none"
    /\ s' = decode_bit(address)
    /\ fn' = "decode_bit"
    /\ UNCHANGED <<a_pc, buf, op, ret, note, address, low_nibble, sret>>

NextTables == DecodeSfr \/ DecodeBit

SpecTables == InitTables /\ [][NextTables]_vars

\* one low nibble and operand byte, s not yet written
InitAMode ==
    /\ low_nibble \in 0..15
    /\ buf \in {<<0, b1, 0>> : b1 \in ByteSamples}
    /\ s \in Garbage
    /\ a_pc = 0
    /\ op = OpBefore
    /\ ret = -1
    /\ note = NoNote
    /\ address = 0
    /\ sret = -1
    /\ fn = "none"

DecodeAMode ==
    /\ fn = "none"
    /\ LET r == decode_a_mode(low_nibble, buf, s) IN
         /\ s' = r.s
         /\ sret' = r.ret
         /\ note' = [note EXCEPT !.reads = r.reads]
    /\ fn' = "decode_a_mode"
    /\ UNCHANGED <<a_pc, buf, op, ret, address, low_nibble>>

NextAMode == DecodeAMode

SpecAMode == InitAMode /\ [][NextAMode]_vars

(***************************************************************************)
(* Vocabulary of the properties.                                           *)
(***************************************************************************)
Called == fn = "disassemble"

\* the address of the instruction, as a 16-bit value
PC16 == a_pc % 65536

\* sign extension of a displacement byte, by arithmetic
SignExtend8(b) == b - 256 * (b \div 128)

StartsWith(str, pre) ==
    Len(str) >= Len(pre) /\ SubSeq(str, 1, Len(pre)) = pre

EndsWith(str, suf) ==
    Len(str) >= Len(suf)
    /\ SubSeq(str, Len(str) - Len(suf) + 1, Len(str)) = suf

\* the value of one hexadecimal digit character
DigitValue(ch) == CHOOSE i \in 0..15 : HexDigits[i + 1] = ch

IsHexDigit(ch) == \E i \in 0..15 : HexDigits[i + 1] = ch

\* the number a string of hexadecimal digits denotes
RECURSIVE ParseHex(_)
ParseHex(str) ==
    IF Len(str) = 0 THEN 0
    ELSE 16 * ParseHex(SubSeq(str, 1, Len(str) - 1))
         + DigitValue(SubSeq(str, Len(str), Len(str)))

\* str is "0x" followed by the hexadecimal digits of n, no leading zero
IsHexLiteral(str, n) ==
    /\ Len(str) >= 3
    /\ SubSeq(str, 1, 2) = "0x"
    /\ \A i \in 3..Len(str) : IsHexDigit(SubSeq(str, i, i))
    /\ (Len(str) > 3 => SubSeq(str, 3, 3) # "0")
    /\ ParseHex(SubSeq(str, 3, Len(str))) = n

\* the last blank-separated word of a decoded line (the branch target)
RECURSIVE LastWordFrom(_, _)
LastWordFrom(str, i) ==
    IF i = 0 \/ SubSeq(str, i, i) = " "
    THEN SubSeq(str, i + 1, Len(str))
    ELSE LastWordFrom(str, i - 1)

LastWord(str) == LastWordFrom(str, Len(str))

\* what the caller sees of a decode
Outcome(r) == [buf_asm |-> r.buf_asm, size |-> r.size, ret |-> r.ret]

Observed == [buf_asm |-> op.buf_asm, size |-> op.size, ret |-> ret]

\* a decode of the same instruction with buf[i] replaced by x
DecodeWith(i, x) ==
    Outcome(disassemble(a_pc, [buf EXCEPT ![i + 1] = x], OpBefore, "", ""))

\* other values for an operand byte b
OtherBytes(b) == {255 - b, (b + 1) % 256}

(***************************************************************************)
(* C1: for every opcode byte, every sampled pair of following bytes and   *)
(* every sampled PC, disassemble writes a mnemonic and a size, returns    *)
(* the size it wrote, and that value is 1, 2 or 3; the failure result     *)
(* (return 0, nothing written) is produced for no opcode byte.            *)
(***************************************************************************)
C1_AlwaysDecodes ==
    Called =>
        /\ ret \in {1, 2, 3}
        /\ op.size = ret
        /\ Len(op.buf_asm) > 0
        /\ op # OpBefore

\* the last opcode byte, 0xff, has been decoded as a one-byte instruction
C1_Witness ==
    Called /\ buf[1] = 255 /\ ret = 1 /\ op.size = 1
           /\ op.buf_asm = "mov r7, a"

(***************************************************************************)
(* C2: the reported length equals the number of input bytes consulted:    *)
(* the indices of buf read are exactly 0 .. length-1; replacing a byte at *)
(* or beyond the length leaves the result unchanged, and each operand     *)
(* byte below the length does influence the result.                       *)
(***************************************************************************)
C2_LengthIsBytesRead ==
    Called =>
        /\ note.reads = 0..(op.size - 1)
        /\ \A i \in {1, 2} :
             IF i >= op.size
             THEN \A x \in OtherBytes(buf[i + 1]) : DecodeWith(i, x) = Observed
             ELSE \E x \in OtherBytes(buf[i + 1]) : DecodeWith(i, x) # Observed

\* 'add a, #imm' (0x24) read buf[0] and buf[1] and reported length 2
C2_Witness ==
    Called /\ buf[1] = 36 /\ buf[2] = 128 /\ note.reads = {0, 1}
           /\ op.size = 2 /\ op.buf_asm = "add a, #0x80"

(***************************************************************************)
(* C3: for jbc/jb/jnb (0x10, 0x20, 0x30; length 3), jc/jnc/jz/jnz (0x40,  *)
(* 0x50, 0x60, 0x70; length 2), sjmp (0x80; length 2) and every cjne      *)
(* (0xb4-0xbf; length 3) the printed target is                            *)
(* (PC + length + sign_extend_8(last byte)) mod 0x10000; jc at 0x1000     *)
(* with displacement 0x05 prints 0x1007.                                  *)
(***************************************************************************)
RelLen3 == {16, 32, 48} \cup (180..191)

RelLen2 == {64, 80, 96, 112, 128}

RelMnemonic(b0) ==
    CASE b0 = 16 -> "jbc "  [] b0 = 32 -> "jb "   [] b0 = 48 -> "jnb "
      [] b0 = 64 -> "jc "   [] b0 = 80 -> "jnc "  [] b0 = 96 -> "jz "
      [] b0 = 112 -> "jnz " [] b0 = 128 -> "sjmp "
      [] OTHER -> "cjne "

C3_RelativeTargets ==
    Called =>
        /\ buf[1] \in RelLen3 =>
             /\ op.size = 3
             /\ StartsWith(op.buf_asm, RelMnemonic(buf[1]))
             /\ IsHexLiteral(LastWord(op.buf_asm),
                             (PC16 + 3 + SignExtend8(buf[3])) % 65536)
        /\ buf[1] \in RelLen2 =>
             /\ op.size = 2
             /\ StartsWith(op.buf_asm, RelMnemonic(buf[1]))
             /\ IsHexLiteral(LastWord(op.buf_asm),
                             (PC16 + 2 + SignExtend8(buf[2])) % 65536)
        /\ (buf[1] = 64 /\ PC16 = 4096 /\ buf[2] = 5) =>
             op.buf_asm = "jc 0x1007"

\* a backward cjne across the 16-bit wrap: 0xffff + 3 - 128 = 0xff82
C3_Witness ==
    Called /\ buf[1] = 182 /\ a_pc = 65535 /\ buf[2] = 35 /\ buf[3] = 128
           /\ op.buf_asm = "cjne @r0, #0x23, 0xff82"

(***************************************************************************)
(* C4: for 'djnz direct, rel' (0xd5, length 3) and 'djnz rN, rel'         *)
(* (0xd8-0xdf, length 2) the printed target is                            *)
(* (PC + reported length + sign_extend_8(displacement)) mod 0x10000.      *)
(***************************************************************************)
C4_DjnzTargets ==
    Called =>
        /\ buf[1] = 213 =>
             /\ op.size = 3
             /\ StartsWith(op.buf_asm, "djnz ")
             /\ IsHexLiteral(LastWord(op.buf_asm),
                             (PC16 + 3 + SignExtend8(buf[3])) % 65536)
        /\ buf[1] \in 216..223 =>
             /\ op.size = 2
             /\ StartsWith(op.buf_asm, "djnz ")
             /\ IsHexLiteral(LastWord(op.buf_asm),
                             (PC16 + 2 + SignExtend8(buf[2])) % 65536)

(***************************************************************************)
(* C5: every opcode byte b with (b & 0x1f) = 0x01 decodes as ajmp and     *)
(* every b with (b & 0x1f) = 0x11 as acall, whatever its high nibble,     *)
(* with length 2 and target                                               *)
(* ((PC + 2) & 0xf800) | ((b & 0xe0) << 3) | byte[1], PC + 2 taken        *)
(* modulo 0x10000; no other opcode byte decodes as ajmp or acall.         *)
(***************************************************************************)
\* the 11-bit page target, by arithmetic on the bit fields
PageTarget(b0, b1) ==
    (((PC16 + 2) % 65536) \div 2048) * 2048 + (b0 \div 32) * 256 + b1

C5_AbsolutePagePriority ==
    Called =>
        /\ buf[1] % 32 = 1 =>
             /\ op.buf_asm = "ajmp " \o Fmt0x(PageTarget(buf[1], buf[2]))
             /\ IsHexLiteral(LastWord(op.buf_asm), PageTarget(buf[1], buf[2]))
             /\ op.size = 2 /\ ret = 2
        /\ buf[1] % 32 = 17 =>
             /\ op.buf_asm = "acall " \o Fmt0x(PageTarget(buf[1], buf[2]))
             /\ IsHexLiteral(LastWord(op.buf_asm), PageTarget(buf[1], buf[2]))
             /\ op.size = 2 /\ ret = 2
        /\ StartsWith(op.buf_asm, "ajmp") => buf[1] % 32 = 1
        /\ StartsWith(op.buf_asm, "acall") => buf[1] % 32 = 17

\* ajmp with high nibble 0xe at the last byte of a 2K page: PC + 2 is in
\* the next page, 0x0800 | 0x0700 | 0x23
C5_Witness ==
    Called /\ buf[1] = 225 /\ a_pc = 2047 /\ buf[2] = 35
           /\ op.buf_asm = "ajmp 0xf23" /\ ret = 2

(***************************************************************************)
(* C6 (as stated): decoding {0x01, 0x23} at PC = 0x0000 yields            *)
(* "ajmp 0x123" with length 2.                                            *)
(***************************************************************************)
C6_AsStated ==
    (Called /\ a_pc = 0 /\ buf[1] = 1 /\ buf[2] = 35) =>
        (op.buf_asm = "ajmp 0x123" /\ op.size = 2)

(***************************************************************************)
(* C6 (amended): decoding {0x01, 0x23} at PC = 0x0000 yields "ajmp 0x23"  *)
(* with length 2: opcode 0x01 carries page bits 000.                      *)
(***************************************************************************)
C6_Amended ==
    (Called /\ a_pc = 0 /\ buf[1] = 1 /\ buf[2] = 35) =>
        (op.buf_asm = "ajmp 0x23" /\ op.size = 2 /\ ret = 2)

C6_Witness ==
    Called /\ a_pc = 0 /\ buf[1] = 1 /\ buf[2] = 35 /\ ret = 2
           /\ LastWord(op.buf_asm) = "0x23"

(***************************************************************************)
(* C7: for ljmp (0x02) and lcall (0x12) the printed target is             *)
(* (byte[1] << 8) | byte[2], length 3, and the result is the same at      *)
(* every PC.                                                              *)
(***************************************************************************)
C7_LongTargetsAbsolute ==
    (Called /\ buf[1] \in {2, 18}) =>
        /\ StartsWith(op.buf_asm, IF buf[1] = 2 THEN "ljmp " ELSE "lcall ")
        /\ IsHexLiteral(LastWord(op.buf_asm), buf[2] * 256 + buf[3])
        /\ op.size = 3 /\ ret = 3
        /\ \A p \in PCSamples :
             Outcome(disassemble(p, buf, OpBefore, "", "")) = Observed

\* lcall 0x2380 decoded at the top of the address space
C7_Witness ==
    Called /\ buf = <<18, 35, 128>> /\ a_pc = 65535
           /\ op.buf_asm = "lcall 0x2380"

(***************************************************************************)
(* C8: for every address 0x80-0xff decode_sfr yields the SFR table entry  *)
(* when it is non-empty and otherwise the address as a hex literal, and   *)
(* the hex literal for every address below 0x80; decode_bit yields        *)
(* "<address/8 + 0x20 in hex>.<address % 8>" for 0x00-0x7f (0x05 ->       *)
(* "0x20.5") and for 0x80-0xff the bit table entry or, if empty, the hex  *)
(* literal.                                                               *)
(***************************************************************************)
C8_SymbolResolvers ==
    /\ fn = "decode_sfr" =>
         /\ IF address >= 128 /\ sfr_map[address - 127] # ""
            THEN s = sfr_map[address - 127]
            ELSE IsHexLiteral(s, address)
         /\ address = 129 => s = "SP"
         /\ address = 144 => s = "P1"
         /\ address = 127 => s = "0x7f"
    /\ fn = "decode_bit" =>
         /\ IF address < 128
            THEN /\ Len(s) = 6
                 /\ IsHexLiteral(SubSeq(s, 1, 4), address \div 8 + 32)
                 /\ SubSeq(s, 5, 5) = "."
                 /\ IsHexDigit(SubSeq(s, 6, 6))
                 /\ DigitValue(SubSeq(s, 6, 6)) = address % 8
            ELSE IF sfr_bit_map[address - 127] # ""
                 THEN s = sfr_bit_map[address - 127]
                 ELSE IsHexLiteral(s, address)
         /\ address = 5 => s = "0x20.5"
         /\ address = 215 => s = "CY"

\* the last bit of the bit-addressable RAM, 0x7f, is bit 7 of byte 0x2f
C8_Witness ==
    fn = "decode_bit" /\ address = 127 /\ s = "0x2f.7"

(***************************************************************************)
(* C9: decode_a_mode maps each low nibble to one operand and byte count:  *)
(* 0x4 -> "#0x<byte[1]>", 2; 0x5 -> decode_sfr(byte[1]), 2; 0x6 -> "@r0", *)
(* 1; 0x7 -> "@r1", 1; 0x8-0xf -> "r<nibble-8>", 1; for 0x0-0x3 it        *)
(* returns 0 and leaves the operand string as it was.                     *)
(***************************************************************************)
RegisterNames == <<"r0", "r1", "r2", "r3", "r4", "r5", "r6", "r7">>

C9_Step ==
    (fn = "none" /\ fn' = "decode_a_mode") =>
        /\ low_nibble = 4 =>
             /\ sret' = 2
             /\ SubSeq(s', 1, 1) = "#"
             /\ IsHexLiteral(SubSeq(s', 2, Len(s')), buf[2])
        /\ low_nibble = 5 =>
             /\ sret' = 2
             /\ s' = decode_sfr(buf[2])
             /\ IF buf[2] >= 128 /\ sfr_map[buf[2] - 127] # ""
                THEN s' = sfr_map[buf[2] - 127]
                ELSE IsHexLiteral(s', buf[2])
        /\ low_nibble = 6 => (sret' = 1 /\ s' = "@r0")
        /\ low_nibble = 7 => (sret' = 1 /\ s' = "@r1")
        /\ low_nibble \in 8..15 =>
             (sret' = 1 /\ s' = RegisterNames[low_nibble - 7])
        /\ low_nibble \in 0..3 => (sret' = 0 /\ s' = s)

C9_AddressingModes == [][C9_Step]_vars

\* nibble 0x2 is no addressing mode: 0 returned, the buffer still holds
\* what it held before the call
C9_Witness ==
    fn = "decode_a_mode" /\ low_nibble = 2 /\ sret = 0 /\ s = "?"

(***************************************************************************)
(* C10: the reserved opcode byte 0xa5 decodes, at every PC and with any   *)
(* following bytes, to "reserved" with length 1 and a non-failure return  *)
(* value, and it is the only opcode byte that decodes to the placeholder. *)
(***************************************************************************)
C10_ReservedPlaceholder ==
    Called =>
        /\ buf[1] = 165 =>
             (op.buf_asm = "reserved" /\ op.size = 1 /\ ret = 1)
        /\ op.buf_asm = "reserved" => buf[1] = 165

C10_Witness ==
    Called /\ buf[1] = 165 /\ buf[2] = 255 /\ a_pc = 65535
           /\ op.buf_asm = "reserved" /\ ret = 1

(***************************************************************************)
(* C11: no opcode byte's decoding falls through from one case block of    *)
(* the switch into the next: a byte with low nibble 1 returns before the  *)
(* switch (ajmp/acall), every other byte enters exactly the block of its  *)
(* own high nibble and returns there.  So the index l-0x6 into the        *)
(* 10-entry regs[] table, used only by the 0x70, 0x80, 0xa0, 0xb0 and     *)
(* 0xd0 blocks, is always within 0..9, and within 2..9 for djnz.          *)
(***************************************************************************)
HighNibble == (buf[1] \div 16) * 16

LowNibble == buf[1] % 16

\* the opcode bytes whose decoding indexes regs[]
UsesRegs ==
    \/ HighNibble \in {112, 128, 160, 176} /\ LowNibble >= 6
    \/ HighNibble = 208 /\ LowNibble >= 8

C11_NoFallthrough ==
    Called =>
        /\ note.blocks = IF LowNibble = 1 THEN <<>> ELSE <<HighNibble>>
        /\ note.regs_idx \subseteq 0..9
        /\ note.regs_idx = IF UsesRegs THEN {LowNibble - 6} ELSE {}
        /\ buf[1] \in 216..223 => note.regs_idx \subseteq 2..9
        /\ UsesRegs =>
             \E i \in 1..Len(regs) :
                 /\ i = LowNibble - 5
                 /\ \E k \in 1..Len(op.buf_asm) :
                      SubSeq(op.buf_asm, k, k + Len(regs[i]) - 1) = regs[i]

\* 'djnz r7, rel' (0xdf) entered only the 0xd0 block and read regs[9]
C11_Witness ==
    Called /\ buf[1] = 223 /\ note.blocks = <<208>> /\ note.regs_idx = {9}
           /\ StartsWith(op.buf_asm, "djnz r7, ")

====
